---- MODULE Spec2Model ----
(***************************************************************************)
(* A model of directory.py: the layered classifier (categorize_file), the  *)
(* category table and its editor (add_category / remove_category), and the *)
(* organize / restore engines working on a file tree and on the persisted  *)
(* restore log.                                                            *)
(*                                                                         *)
(* Paths are sequences of names relative to the selected directory, which  *)
(* is the empty path.  A node of the tree is "DIR" or the identifier of a  *)
(* file's bytes.  Ordered dicts (CATEGORIES, move_log, the JSON log) are   *)
(* sequences in insertion order.                                           *)
(***************************************************************************)
EXTENDS Integers, Sequences, FiniteSets, TLC

\* ------------------------------------------------------------------ bounds
MaxFaults == 1     \* environment failures (I/O, collaborator) per behaviour
MaxOps == 3        \* organize / restore handler invocations per behaviour
MaxAdded == 1      \* successful add_category calls per behaviour
MaxWindows == 1    \* settings windows opened per behaviour
MaxRemoved == 1    \* successful remove_category calls per behaviour
MaxStaleWindows == 2 \* settings windows open side by side (SpecRegistry)

\* --------------------------------------------------------------- sentinels
Raised == "<exception>"       \* an exception leaves the function
NoMatch == "<no match>"       \* a for-loop over CATEGORIES fell through
SniffError == "<sniff error>" \* mime.from_file raises
None == "<None>"              \* Python None

\* ------------------------------------------------------------ string tables
\* str.lower() on the strings that occur in the model
Lower(s) ==
  CASE s = "TXT" -> "txt"
    [] s = "REPORT" -> "report"
    [] OTHER -> s

\* str.strip() on the strings that occur in the model
Strip(s) ==
  CASE s = " txt" -> "txt"
    [] s = " " -> ""
    [] OTHER -> s

\* Path.suffix[1:] : the text after the last dot of the name, "" without one
SuffixNoDot(name) ==
  CASE name = "a.txt" -> "txt"
    [] name = "b.txt" -> "txt"
    [] name = "R.TXT" -> "TXT"
    [] name = "d.pdf" -> "pdf"
    [] name = "f.xyz" -> "xyz"
    [] name = "report.txt" -> "txt"
    [] name = "photo.jpg" -> "jpg"
    [] name = "script.py" -> "py"
    [] OTHER -> ""

\* ------------------------------------------------------------------- texts
\* A text is the words within its first 2000 characters (head) and the words
\* after them (tail).
EmptyText == [head |-> <<>>, tail |-> <<>>]
IsEmptyText(t) == t.head = <<>> /\ t.tail = <<>>
MapLower(ws) == [k \in 1..Len(ws) |-> Lower(ws[k])]
TextLower(t) == [head |-> MapLower(t.head), tail |-> MapLower(t.tail)]

\* pos_tag: the words of the model that are tagged NN*
IsNoun(w) == w \in {"report", "data", "invoice", "photo", "REPORT"}

RECURSIVE SelectNouns(_)
SelectNouns(ws) ==
  IF ws = <<>> THEN <<>>
  ELSE IF IsNoun(Head(ws)) THEN <<Head(ws)>> \o SelectNouns(Tail(ws))
       ELSE SelectNouns(Tail(ws))

\* analyze_content: tokenize text[:2000], keep the nouns
analyze_content(text) == SelectNouns(text.head)

InList(x, xs) == \E k \in 1..Len(xs) : xs[k] = x

\* --------------------------------------------------------------- registry
DefaultCategories ==
  << [name |-> "Documents",
      keywords |-> <<"report", "invoice", "letter", "contract">>,
      extensions |-> <<"doc", "docx", "pdf", "txt">>,
      mime_types |-> <<"application/pdf", "text/plain", "application/msword">>],
     [name |-> "Images",
      keywords |-> <<"photo", "image", "picture">>,
      extensions |-> <<"jpg", "png", "jpeg", "gif">>,
      mime_types |-> <<"image/jpeg", "image/png", "image/gif">>],
     [name |-> "Media",
      keywords |-> <<"video", "audio", "movie">>,
      extensions |-> <<"mp4", "mp3", "wav">>,
      mime_types |-> <<"video/mp4", "audio/mpeg", "audio/wav">>],
     [name |-> "Code",
      keywords |-> <<"script", "code", "program">>,
      extensions |-> <<"py", "js", "html", "cpp">>,
      mime_types |-> <<"text/x-python", "application/javascript", "text/html", "text/x-c++">>] >>

\* a step 3 that also reads files of unknown type
ContentMimes_with_octet == <<"application/pdf", "text/plain", "application/octet-stream">>

\* the literal list of categorize_file's step 3
ContentMimes == <<"application/pdf", "text/plain">>

CategoryNames(cats) == {cats[k].name : k \in 1..Len(cats)}
HasCategory(cats, cat) == cat \in CategoryNames(cats)

\* ------------------------------------------------------------- classifier
\* the three for-loops of categorize_file, each returning at its first hit
RECURSIVE ScanMime(_, _, _)
ScanMime(cats, k, mime_type) ==
  IF k > Len(cats) THEN NoMatch
  ELSE IF InList(mime_type, cats[k].mime_types) THEN cats[k].name
       ELSE ScanMime(cats, k + 1, mime_type)

RECURSIVE ScanExt(_, _, _)
ScanExt(cats, k, file_ext) ==
  IF k > Len(cats) THEN NoMatch
  ELSE IF InList(file_ext, cats[k].extensions) THEN cats[k].name
       ELSE ScanExt(cats, k + 1, file_ext)

RECURSIVE ScanKeywords(_, _, _)
ScanKeywords(cats, k, nouns) ==
  IF k > Len(cats) THEN NoMatch
  ELSE IF \E j \in 1..Len(cats[k].keywords) : InList(cats[k].keywords[j], nouns)
       THEN cats[k].name
       ELSE ScanKeywords(cats, k + 1, nouns)

\* extract_text_from_pdf: the lowercased page text, "" on any failure
extract_text_from_pdf(f) == TextLower(f.pdf)

\* step 3 of categorize_file, entered when the MIME type is in ContentMimes
ContentStage(f, cats, file_ext) ==
  LET text0 == IF file_ext = "pdf" THEN extract_text_from_pdf(f) ELSE EmptyText
  IN IF IsEmptyText(text0) /\ ~f.raw.ok THEN "Uncategorized"
     ELSE LET text == IF IsEmptyText(text0) THEN TextLower(f.raw.text) ELSE text0
          IN IF f.nlp = "raise" THEN Raised
             ELSE LET hit == ScanKeywords(cats, 1, analyze_content(text))
                  IN IF hit # NoMatch THEN hit ELSE "Uncategorized"

\* categorize_file with steps 1 and 2 exchanged (extension before MIME type)
categorize_file_ext_first(f, cats) ==
  LET file_ext == Lower(SuffixNoDot(f.name))
      mime_type == f.sniff
  IN IF mime_type = SniffError THEN Raised
     ELSE IF ScanExt(cats, 1, file_ext) # NoMatch THEN ScanExt(cats, 1, file_ext)
     ELSE IF ScanMime(cats, 1, mime_type) # NoMatch THEN ScanMime(cats, 1, mime_type)
     ELSE IF InList(mime_type, ContentMimes) THEN ContentStage(f, cats, file_ext)
     ELSE "Uncategorized"

\* categorize_file.  f is what the collaborators give for the file:
\* name, sniff (MIME or SniffError), pdf (PyPDF2's text), raw (whether
\* open/read succeeds, and the decoded bytes), nlp ("ok" or "raise" for
\* word_tokenize / pos_tag).
categorize_file(f, cats) ==
  LET file_ext == Lower(SuffixNoDot(f.name))
      mime_type == f.sniff
  IN IF mime_type = SniffError THEN Raised
     ELSE IF ScanMime(cats, 1, mime_type) # NoMatch THEN ScanMime(cats, 1, mime_type)
     ELSE IF ScanExt(cats, 1, file_ext) # NoMatch THEN ScanExt(cats, 1, file_ext)
     ELSE IF InList(mime_type, ContentMimes) THEN ContentStage(f, cats, file_ext)
     ELSE "Uncategorized"


\* ------------------------------------------------------------------ state
VARIABLES
  CATEGORIES,      \* the global category table, in insertion order
  listboxes,       \* categories_listbox of each open settings window
  edit,            \* outcome of the last add_category / remove_category
  added, dropped,  \* number of successful add_category / remove_category calls
  cfFile,          \* the file categorize_file is tried on
  cfResult,        \* what categorize_file returned for it under CATEGORIES
  fs,              \* the file tree under the selected directory
  restore_log,     \* restore_log.json: [state, log]
  move_log,        \* FileOrganizerApp.move_log
  pc,              \* "idle", "organizing" or "restoring"
  files, idx,      \* organize_files: the listed files and the loop position
  seen_hashes,     \* organize_files: hash -> target path of this run
  skip_duplicates, \* the argument of the running organize_files
  rlog,            \* restore_files: the loaded move_log
  cleanup_empty,   \* the argument of the running restore_files
  log_area,        \* the lines written to the log widget by the last handler
  runs,            \* history: one record per organize run
  rst,             \* history: the last restore run
  trace,           \* history: the handlers invoked so far, in order
  faults           \* environment failures so far

regVars == <<CATEGORIES, listboxes, edit, added, dropped>>
cfVars == <<cfFile, cfResult>>
engVars == <<fs, restore_log, move_log, pc, files, idx, seen_hashes,
             skip_duplicates, rlog, cleanup_empty, log_area, runs, rst, trace, faults>>
vars == <<CATEGORIES, listboxes, edit, added, dropped, cfFile, cfResult,
          fs, restore_log, move_log, pc, files, idx, seen_hashes,
          skip_duplicates, rlog, cleanup_empty, log_area, runs, rst, trace, faults>>

\* -------------------------------------------------------- settings window
\* what the user may type in the entries; a list entry is given as the
\* pieces between its commas
NameEntries == {"", "Documents", "Texts"}
KeywordEntries == {<<"">>, <<"photo">>}
ExtensionEntries == {<<"">>, <<" txt">>, <<"TXT", " ">>}
MimeEntries == {<<"">>, <<"text/plain">>}

\* [x.strip() for x in entry.split(",") if x.strip()]
RECURSIVE StripItems(_)
StripItems(items) ==
  IF items = <<>> THEN <<>>
  ELSE IF Strip(Head(items)) # "" THEN <<Strip(Head(items))>> \o StripItems(Tail(items))
       ELSE StripItems(Tail(items))

RemoveAt(s, k) == SubSeq(s, 1, k - 1) \o SubSeq(s, k + 1, Len(s))

\* del CATEGORIES[cat], for a cat that is a key
DelCategory(cats, cat) == SelectSeq(cats, LAMBDA r : r.name # cat)

\* open_settings: a new window whose listbox shows the keys of CATEGORIES
open_settings ==
  /\ listboxes' = Append(listboxes, [k \in 1..Len(CATEGORIES) |-> CATEGORIES[k].name])
  /\ edit' = "opened"
  /\ cfResult' = None
  /\ UNCHANGED <<CATEGORIES, added, dropped, cfFile>>
  /\ UNCHANGED engVars

OpenSettings == Len(listboxes) < MaxWindows /\ open_settings

\* add_category of window w
add_category(w, name_entry, keywords_entry, extensions_entry, mime_types_entry) ==
  LET cat == Strip(name_entry)
      keywords == StripItems(keywords_entry)
      extensions == StripItems(extensions_entry)
      mime_types == StripItems(mime_types_entry)
  IN /\ w \in 1..Len(listboxes)
     /\ cfResult' = None
     /\ UNCHANGED <<cfFile, dropped>>
     /\ UNCHANGED engVars
     /\ IF cat = "" \/ (keywords = <<>> /\ extensions = <<>> /\ mime_types = <<>>)
        THEN edit' = "input_error" /\ UNCHANGED <<CATEGORIES, listboxes, added>>
        ELSE IF HasCategory(CATEGORIES, cat)
        THEN edit' = "duplicate" /\ UNCHANGED <<CATEGORIES, listboxes, added>>
        ELSE /\ added < MaxAdded
             /\ CATEGORIES' = Append(CATEGORIES, [name |-> cat, keywords |-> keywords,
                                     extensions |-> extensions, mime_types |-> mime_types])
             /\ listboxes' = [listboxes EXCEPT ![w] = Append(@, cat)]
             /\ added' = added + 1
             /\ edit' = "added"

\* remove_category of window w; sel is curselection(): 0 when nothing is
\* selected, else the position of the selected line
remove_category(w, sel) ==
  /\ w \in 1..Len(listboxes)
  /\ sel \in 0..Len(listboxes[w])
  /\ cfResult' = None
  /\ UNCHANGED <<cfFile, added>>
  /\ UNCHANGED engVars
  /\ IF sel = 0
     THEN edit' = "selection_error" /\ UNCHANGED <<CATEGORIES, listboxes, dropped>>
     ELSE LET cat == listboxes[w][sel]
          IN IF ~HasCategory(CATEGORIES, cat)
             THEN edit' = "KeyError" /\ UNCHANGED <<CATEGORIES, listboxes, dropped>>
             ELSE /\ dropped < MaxRemoved
                  /\ CATEGORIES' = DelCategory(CATEGORIES, cat)
                  /\ listboxes' = [listboxes EXCEPT ![w] = RemoveAt(@, sel)]
                  /\ dropped' = dropped + 1
                  /\ edit' = "removed"

\* ------------------------------------------------- classification inputs
TReport == [head |-> <<"quarterly", "REPORT", "data">>, tail |-> <<>>]
TPhotoLate == [head |-> <<"data">>, tail |-> <<"photo">>]
TPhoto == [head |-> <<"photo">>, tail |-> <<>>]
ReadFails == [ok |-> FALSE, text |-> EmptyText]
ReadGives(t) == [ok |-> TRUE, text |-> t]

\* the files categorize_file is tried on
ClassifyFiles ==
  [name : {"a.txt", "R.TXT", "d.pdf", "f.xyz"},
   sniff : {"text/plain", "application/pdf", "image/jpeg", "application/octet-stream", SniffError},
   pdf : {EmptyText, TReport},
   raw : {ReadFails, ReadGives(TPhoto), ReadGives(TPhotoLate)},
   nlp : {"ok", "raise"}]

\* one call of categorize_file, on cfFile under the current table
Classify ==
  /\ cfResult' = categorize_file(cfFile, CATEGORIES)
  /\ UNCHANGED cfFile
  /\ UNCHANGED regVars
  /\ UNCHANGED engVars


\* --------------------------------------------------------------- file tree
Root == <<>>
Exists(f, p) == p \in DOMAIN f
is_dir(f, p) == Exists(f, p) /\ f[p] = "DIR"
is_file(f, p) == Exists(f, p) /\ f[p] # "DIR"
Parent(p) == SubSeq(p, 1, Len(p) - 1)
Basename(p) == p[Len(p)]
IsPrefix(p, q) == Len(p) <= Len(q) /\ SubSeq(q, 1, Len(p)) = p
Rebase(q, from, to) == to \o SubSeq(q, Len(from) + 1, Len(q))

\* Path.iterdir(): the immediate entries of directory d
iterdir(f, d) == {q \in DOMAIN f : Len(q) = Len(d) + 1 /\ IsPrefix(d, q)}

\* a move that copies: the node at src, with everything below it, is
\* afterwards at dst and still at src
os_rename_keeps_src(f, src, dst) ==
  LET landed == {Rebase(q, src, dst) : q \in {r \in DOMAIN f : IsPrefix(src, r)}}
  IN [q \in (DOMAIN f) \cup landed |->
        IF q \in landed THEN f[Rebase(q, dst, src)] ELSE f[q]]

\* os.rename(src, dst) where dst is absent or a file that src replaces:
\* the node at src, with everything below it, is afterwards at dst
os_rename(f, src, dst) ==
  LET kept == {q \in DOMAIN f : ~IsPrefix(src, q) /\ q # dst}
      landed == {Rebase(q, src, dst) : q \in {r \in DOMAIN f : IsPrefix(src, r)}}
  IN [q \in kept \cup landed |->
        IF q \in landed THEN f[Rebase(q, dst, src)] ELSE f[q]]

\* shutil.move(src, dst) for an existing src.  A destination that is a
\* directory receives src inside it, unless that name is taken there
\* (shutil.Error); a file at the destination is replaced by a file; a
\* directory cannot replace a file (copytree raises FileExistsError).
\* io_fails is a permission or I/O error of the environment.
shutil_move(f, src, dst, io_fails) ==
  LET real_dst == IF is_dir(f, dst) THEN Append(dst, Basename(src)) ELSE dst
  IN IF \/ io_fails
        \/ is_dir(f, dst) /\ Exists(f, real_dst)
        \/ ~is_dir(f, Parent(real_dst))
        \/ is_dir(f, src) /\ is_file(f, real_dst)
     THEN [ok |-> FALSE, fs |-> f, at |-> src]
     ELSE [ok |-> TRUE, fs |-> os_rename(f, src, real_dst), at |-> real_dst]

\* Path.mkdir(exist_ok=True): FileExistsError when the path is a file,
\* FileNotFoundError when the parent is missing
mkdir(f, d) ==
  IF is_dir(f, d) THEN [ok |-> TRUE, fs |-> f]
  ELSE IF Exists(f, d) \/ ~is_dir(f, Parent(d)) THEN [ok |-> FALSE, fs |-> f]
  ELSE [ok |-> TRUE, fs |-> (d :> "DIR") @@ f]

\* os.rmdir of an empty directory
os_rmdir(f, d) == [q \in DOMAIN f \ {d} |-> f[q]]

\* ------------------------------------------------------ files of the tree
\* The bytes of a file, by identifier: "T" and "Q" are plain texts, "B"
\* and "O" are binary data, "J" is a JPEG image, "Y" and "Z" are Python
\* sources, the first one recognised as such by libmagic, the second one
\* reported as plain text.
TQuarterly == [head |-> <<"quarterly", "report", "data">>, tail |-> <<>>]
TSource == [head |-> <<"print">>, tail |-> <<>>]
SniffOf(c) ==
  CASE c \in {"T", "Q", "Z"} -> "text/plain"
    [] c = "J" -> "image/jpeg"
    [] c = "Y" -> "text/x-python"
    [] OTHER -> "application/octet-stream"
RawTextOf(c) ==
  CASE c = "T" -> TReport
    [] c = "Q" -> TQuarterly
    [] c \in {"Y", "Z"} -> TSource
    [] OTHER -> EmptyText

\* hashlib.md5 of the bytes
md5(c) ==
  CASE c = "T" -> "9f2c"
    [] c = "B" -> "41d8"
    [] c = "Q" -> "7b1e"
    [] c = "J" -> "c3a0"
    [] c = "Y" -> "58f6"
    [] c = "Z" -> "d912"
    [] OTHER -> "e07a"

\* get_file_hash: the digest, None when reading the file fails
get_file_hash(c, read_fails) == IF read_fails THEN None ELSE md5(c)

\* what the collaborators give categorize_file for the file at path p
FileView(f, p, flt) ==
  [name |-> Basename(p),
   sniff |-> IF flt = "sniff" THEN SniffError ELSE SniffOf(f[p]),
   pdf |-> EmptyText,
   raw |-> ReadGives(RawTextOf(f[p])),
   nlp |-> IF flt = "nlp" THEN "raise" ELSE "ok"]

\* ------------------------------------------------------------ ordered dict
DictKeys(d) == {d[k][1] : k \in 1..Len(d)}
DictValues(d) == {d[k][2] : k \in 1..Len(d)}
\* d[key] = value
DictSet(d, key, value) ==
  IF key \in DictKeys(d)
  THEN [k \in 1..Len(d) |-> IF d[k][1] = key THEN <<key, value>> ELSE d[k]]
  ELSE Append(d, <<key, value>>)

\* all orders in which iterdir may list the files of a set
Orders(S) == {o \in [1..Cardinality(S) -> S] : \A x \in S : \E k \in DOMAIN o : o[k] = x}

Line(kind, name) == [kind |-> kind, name |-> name]
LastRun == runs[Len(runs)]
SetLastRun(r) == [runs EXCEPT ![Len(runs)] = r]


\* ---------------------------------------------------------------- organize
\* start_organizing without the clear(): the log of the last run is kept
move_log_kept(log) == log

\* self.move_log.clear() of start_organizing
move_log_clear(log) == <<>>

\* the duplicate test looking the hash up among the remembered target
\* paths instead of among the remembered hashes
IsDuplicate_in_values(skip, file_hash, seen) ==
  skip /\ file_hash # None /\ file_hash \in DictValues(seen)

\* the test of organize_files that skips a file as a duplicate
IsDuplicate(skip, file_hash, seen) ==
  skip /\ file_hash # None /\ file_hash \in DictKeys(seen)

\* a target path that ignores the name of the file
TargetPath_one_name(category_path, name) == Append(category_path, "file")

\* target_path = category_path / file_path.name
TargetPath(category_path, name) == Append(category_path, name)

\* history: the record of an organize run that starts now
NewRun(skip, order) ==
  [skip |-> skip, status |-> "running", fs0 |-> fs, log0 |-> restore_log,
   listed |-> order, reached |-> 0, hashed |-> {}, moved |-> <<>>,
   skipped |-> {}, failed |-> {}, saved |-> "no"]

\* start_organizing up to the loop of organize_files: clear move_log, check
\* the directory, list its files (in the order iterdir gives them)
OrganizeStart(skip, order) ==
  /\ pc = "idle"
  /\ Len(trace) < MaxOps
  /\ trace' = Append(trace, "organize")
  /\ move_log' = move_log_clear(move_log)
  /\ IF ~Exists(fs, Root)
     THEN /\ log_area' = <<Line("starting", ""), Line("error_no_directory", "")>>
          /\ runs' = Append(runs, [NewRun(skip, <<>>) EXCEPT !.status = "refused"])
          /\ UNCHANGED <<pc, files, idx, seen_hashes, skip_duplicates>>
     ELSE IF ~is_dir(fs, Root)
     THEN \* source_path.iterdir() raises NotADirectoryError
          /\ log_area' = <<Line("starting", "")>>
          /\ runs' = Append(runs, [NewRun(skip, <<>>) EXCEPT !.status = "aborted"])
          /\ UNCHANGED <<pc, files, idx, seen_hashes, skip_duplicates>>
     ELSE /\ order \in Orders({q \in iterdir(fs, Root) : is_file(fs, q)})
          /\ files' = order
          /\ idx' = 1
          /\ seen_hashes' = <<>>
          /\ skip_duplicates' = skip
          /\ pc' = "organizing"
          /\ log_area' = <<Line("starting", ""), Line("scanning", "")>>
          /\ runs' = Append(runs, NewRun(skip, order))
  /\ UNCHANGED <<fs, restore_log, rlog, cleanup_empty, rst, faults>>
  /\ UNCHANGED regVars
  /\ UNCHANGED cfVars

\* one pass of the for-loop of organize_files, for files[idx]; flt is the
\* failure the environment produces in this pass ("none", "hash", "sniff",
\* "nlp" or "move").  The result is the state the pass leaves; pc "idle"
\* means an exception left organize_files.
OrganizeFile(flt) ==
  LET file_path == files[idx]
      name == Basename(file_path)
      file_hash == IF skip_duplicates THEN get_file_hash(fs[file_path], flt = "hash") ELSE None
      r == [LastRun EXCEPT !.reached = idx,
                           !.hashed = IF file_hash # None THEN @ \cup {file_path} ELSE @]
      base == [fs |-> fs, move_log |-> move_log, seen |-> seen_hashes, pc |-> "organizing",
               idx |-> idx + 1, run |-> r, log |-> log_area]
      category == categorize_file(FileView(fs, file_path, flt), CATEGORIES)
      target_dir == <<category>>
      mk == mkdir(fs, target_dir)
      target_path == TargetPath(target_dir, name)
      mv == shutil_move(mk.fs, file_path, target_path, flt = "move")
  IN IF IsDuplicate(skip_duplicates, file_hash, seen_hashes)
     THEN [base EXCEPT !.log = Append(log_area, Line("skipping_duplicate", name)),
                       !.run = [r EXCEPT !.skipped = @ \cup {file_path}]]
     ELSE IF category = Raised \/ ~mk.ok
     THEN [base EXCEPT !.pc = "idle", !.idx = idx,
                       !.run = [r EXCEPT !.status = "aborted"]]
     ELSE IF mv.ok
     THEN [base EXCEPT !.fs = mv.fs,
                       !.move_log = DictSet(move_log, target_path, file_path),
                       !.seen = IF skip_duplicates /\ file_hash # None
                                THEN DictSet(seen_hashes, file_hash, target_path)
                                ELSE seen_hashes,
                       !.log = Append(log_area, Line("moved", name)),
                       !.run = [r EXCEPT !.moved = Append(@, [orig |-> file_path,
                                   target |-> target_path, at |-> mv.at, data |-> fs[file_path]])]]
     ELSE [base EXCEPT !.fs = mk.fs,
                       !.log = Append(log_area, Line("error_moving", name)),
                       !.run = [r EXCEPT !.failed = @ \cup {file_path}]]

OrganizePass(flt) ==
  /\ pc = "organizing"
  /\ idx <= Len(files)
  /\ flt # "none" => faults < MaxFaults /\ OrganizeFile(flt) # OrganizeFile("none")
  /\ LET n == OrganizeFile(flt)
     IN /\ fs' = n.fs
        /\ move_log' = n.move_log
        /\ seen_hashes' = n.seen
        /\ pc' = n.pc
        /\ idx' = n.idx
        /\ log_area' = n.log
        /\ runs' = SetLastRun(n.run)
  /\ faults' = IF flt = "none" THEN faults ELSE faults + 1
  /\ UNCHANGED <<restore_log, files, skip_duplicates, rlog, cleanup_empty, rst, trace>>
  /\ UNCHANGED regVars
  /\ UNCHANGED cfVars

\* the end of organize_files: json.dump(move_log) to restore_log.json.
\* how is "ok", "open_fails" (the file is left as it was) or "write_fails"
\* (the file was truncated by open and is left unparsable)
OrganizeEnd(how) ==
  /\ pc = "organizing"
  /\ idx > Len(files)
  /\ how # "ok" => faults < MaxFaults
  /\ faults' = IF how = "ok" THEN faults ELSE faults + 1
  /\ restore_log' = CASE how = "ok" -> [state |-> "ok", log |-> move_log]
                      [] how = "open_fails" -> restore_log
                      [] OTHER -> [state |-> "corrupt", log |-> <<>>]
  /\ log_area' = Append(log_area, Line(IF how = "ok" THEN "complete_saved" ELSE "error_saving", ""))
  /\ runs' = SetLastRun([LastRun EXCEPT !.status = "done",
                                        !.saved = IF how = "ok" THEN "ok" ELSE "failed"])
  /\ pc' = "idle"
  /\ UNCHANGED <<fs, move_log, files, idx, seen_hashes, skip_duplicates, rlog,
                 cleanup_empty, rst, trace>>
  /\ UNCHANGED regVars
  /\ UNCHANGED cfVars

\* ----------------------------------------------------------------- restore
NoRestore == [status |-> "none", error |-> None, cleanup |-> FALSE, fs0 |-> <<>>,
              log0 |-> <<>>, mem0 |-> <<>>, restored |-> {}, notfound |-> {},
              failed |-> {}, removed |-> {}, keptdirs |-> {},
              prev |-> [status |-> "none", log0 |-> <<>>, restored |-> {}]]

\* history: what is remembered of the restore before the one that starts
Summary(r) == [status |-> r.status, log0 |-> r.log0, restored |-> r.restored]

\* the checks of restore_files without the test for an empty log
LoadError_no_empty_test(lg) ==
  CASE lg.state = "absent" -> "NoLogFound"
    [] lg.state = "corrupt" -> "ParseError"
    [] OTHER -> None

\* the checks of restore_files on restore_log.json before anything is
\* moved: the error they end with, None when the log is loaded
LoadError(lg) ==
  CASE lg.state = "absent" -> "NoLogFound"
    [] lg.state = "corrupt" -> "ParseError"
    [] lg.log = <<>> -> "EmptyLog"
    [] OTHER -> None

\* a restore that deletes restore_log.json once it has read it
RestoreLogFrame_unlink ==
  /\ restore_log' = [state |-> "absent", log |-> <<>>]
  /\ UNCHANGED move_log

\* what start_restoring and restore_files do to the two logs: the file is
\* opened for reading only, and self.move_log is not passed on
RestoreLogFrame == UNCHANGED <<restore_log, move_log>>

\* start_restoring up to the loop of restore_files: the three checks on
\* restore_log.json, then json.load
RestoreStart(cleanup) ==
  /\ pc = "idle"
  /\ Len(trace) < MaxOps
  /\ trace' = Append(trace, "restore")
  /\ LET err == LoadError(restore_log)
         r == [NoRestore EXCEPT !.cleanup = cleanup, !.fs0 = fs, !.log0 = restore_log,
                                !.mem0 = move_log, !.prev = Summary(rst)]
     IN IF err # None
        THEN /\ log_area' = <<Line("checking", ""), Line("error", err)>>
             /\ rst' = [r EXCEPT !.status = "refused", !.error = err]
             /\ UNCHANGED <<pc, rlog, idx, cleanup_empty>>
        ELSE /\ log_area' = <<Line("checking", ""), Line("restoring", "")>>
             /\ rst' = [r EXCEPT !.status = "running"]
             /\ rlog' = restore_log.log
             /\ idx' = 1
             /\ cleanup_empty' = cleanup
             /\ pc' = "restoring"
  /\ RestoreLogFrame
  /\ UNCHANGED <<fs, files, seen_hashes, skip_duplicates, runs, faults>>
  /\ UNCHANGED regVars
  /\ UNCHANGED cfVars

\* one pass of the for-loop of restore_files, for entry rlog[idx]
RestoreFile(io_fails) ==
  LET target_path == rlog[idx][1]
      original_path == rlog[idx][2]
      name == Basename(target_path)
      mv == shutil_move(fs, target_path, original_path, io_fails)
  IN IF Exists(fs, target_path)
     THEN IF mv.ok
          THEN [fs |-> mv.fs, log |-> Append(log_area, Line("restored", name)),
                rst |-> [rst EXCEPT !.restored = @ \cup {rlog[idx]}]]
          ELSE [fs |-> fs, log |-> Append(log_area, Line("error_restoring", name)),
                rst |-> [rst EXCEPT !.failed = @ \cup {rlog[idx]}]]
     ELSE [fs |-> fs, log |-> Append(log_area, Line("skipping_not_found", name)),
           rst |-> [rst EXCEPT !.notfound = @ \cup {rlog[idx]}]]

RestorePass(io_fails) ==
  /\ pc = "restoring"
  /\ idx <= Len(rlog)
  /\ io_fails => faults < MaxFaults /\ RestoreFile(TRUE) # RestoreFile(FALSE)
  /\ LET n == RestoreFile(io_fails)
     IN fs' = n.fs /\ log_area' = n.log /\ rst' = n.rst
  /\ idx' = idx + 1
  /\ faults' = IF io_fails THEN faults + 1 ELSE faults
  /\ RestoreLogFrame
  /\ UNCHANGED <<pc, files, seen_hashes, skip_duplicates, rlog, cleanup_empty, runs, trace>>
  /\ UNCHANGED regVars
  /\ UNCHANGED cfVars

\* the empty immediate subdirectories of source_path
EmptySubdirs(f, source_path) ==
  {d \in iterdir(f, source_path) : is_dir(f, d) /\ iterdir(f, d) = {}}

\* the end of restore_files: the cleanup loop and the completion line.
\* failing is the set of folders whose os.rmdir fails.  When source_path
\* is not a directory, source_path.iterdir() raises and the exception
\* leaves restore_files.
RestoreEnd(failing) ==
  /\ pc = "restoring"
  /\ idx > Len(rlog)
  /\ LET source_path == IF rlog # <<>> THEN Parent(rlog[1][2]) ELSE None
         cleaning == cleanup_empty /\ rlog # <<>>
         empties == IF cleaning THEN EmptySubdirs(fs, source_path) ELSE {}
         removed == empties \ failing
     IN IF cleaning /\ ~is_dir(fs, source_path)
        THEN /\ failing = {}
             /\ rst' = [rst EXCEPT !.status = "aborted"]
             /\ UNCHANGED <<fs, log_area, faults>>
        ELSE /\ failing \subseteq empties
             /\ faults + Cardinality(failing) <= MaxFaults
             /\ faults' = faults + Cardinality(failing)
             /\ fs' = [q \in DOMAIN fs \ removed |-> fs[q]]
             /\ rst' = [rst EXCEPT !.status = "done", !.removed = removed,
                                   !.keptdirs = failing]
             /\ log_area' = Append(log_area, Line("restore_complete", ""))
  /\ pc' = "idle"
  /\ RestoreLogFrame
  /\ UNCHANGED <<files, idx, seen_hashes, skip_duplicates, rlog, cleanup_empty, runs, trace>>
  /\ UNCHANGED regVars
  /\ UNCHANGED cfVars


\* ------------------------------------------------------------ initial state
\* the selected directory before the first handler runs: some of these files
\* directly in it ("-" is no file), and one of these older subtrees
Level1Names == {"a.txt", "b.txt", "Documents"}
Level1Choices ==
  {c \in [Level1Names -> {"-", "T", "B"}] : c["Documents"] # "T" /\ c["b.txt"] # "T"}
NoTree == [q \in {} |-> "DIR"]
ExtraTrees ==
  { NoTree,
    (<<"Documents">> :> "DIR") @@ (<<"Documents", "a.txt">> :> "O"),
    (<<"Documents">> :> "DIR") @@ (<<"Documents", "a.txt">> :> "DIR")
       @@ (<<"Documents", "a.txt", "k">> :> "O"),
    (<<"Old">> :> "DIR") }

TreeOf(c, extra) ==
  [q \in {Root} \cup {<<n>> : n \in {m \in Level1Names : c[m] # "-"}} \cup DOMAIN extra |->
     IF q = Root THEN "DIR" ELSE IF q \in DOMAIN extra THEN extra[q] ELSE c[q[1]]]

\* the selected path is a file (the directory was replaced after it was
\* selected), or it is no longer there
RootIsFile == (Root :> "B")
RootMissing == [q \in {} |-> "DIR"]

InitialTrees ==
  {TreeOf(c, extra) : <<c, extra>> \in
     {x \in Level1Choices \X ExtraTrees : \A n \in Level1Names : x[1][n] # "-" => <<n>> \notin DOMAIN x[2]}}
  \cup {RootIsFile, RootMissing}


InitEngine ==
  /\ pc = "idle"
  /\ restore_log = [state |-> "absent", log |-> <<>>]
  /\ move_log = <<>>
  /\ files = <<>>
  /\ idx = 0
  /\ seen_hashes = <<>>
  /\ skip_duplicates = FALSE
  /\ rlog = <<>>
  /\ cleanup_empty = TRUE
  /\ log_area = <<>>
  /\ runs = <<>>
  /\ rst = NoRestore
  /\ trace = <<>>
  /\ faults = 0

InitRegistry ==
  /\ listboxes = <<>>
  /\ edit = "none"
  /\ added = 0
  /\ dropped = 0
  /\ cfResult = None

Init ==
  /\ InitRegistry
  /\ cfFile = None
  /\ CATEGORIES = DefaultCategories
  /\ InitEngine
  /\ fs \in InitialTrees

FaultKinds == {"none", "hash", "sniff", "nlp", "move"}
SaveOutcomes == {"ok", "open_fails", "write_fails"}

StartOrganizing ==
  \E skip \in BOOLEAN :
    \E order \in Orders({q \in iterdir(fs, Root) : is_file(fs, q)}) :
      OrganizeStart(skip, order)
OrganizeStep == \E flt \in FaultKinds : OrganizePass(flt)
OrganizeSave == \E how \in SaveOutcomes : OrganizeEnd(how)
StartRestoring == \E cleanup \in BOOLEAN : RestoreStart(cleanup)
RestoreStep == \E io_fails \in BOOLEAN : RestorePass(io_fails)
RestoreFinish == \E failing \in SUBSET iterdir(fs, Root) : RestoreEnd(failing)

Next ==
  \/ StartOrganizing
  \/ OrganizeStep
  \/ OrganizeSave
  \/ StartRestoring
  \/ RestoreStep
  \/ RestoreFinish

Spec == Init /\ [][Next]_vars

\* the user deletes (or moves away) the selected directory between two
\* handlers
ManualDelete ==
  /\ pc = "idle"
  /\ Exists(fs, Root)
  /\ fs' = RootMissing
  /\ UNCHANGED <<restore_log, move_log, pc, files, idx, seen_hashes, skip_duplicates,
                 rlog, cleanup_empty, log_area, runs, rst, trace, faults>>
  /\ UNCHANGED regVars
  /\ UNCHANGED cfVars

NextIntervene == Next \/ ManualDelete

SpecIntervene == Init /\ [][NextIntervene]_vars

\* the directory of the default-registry scenario: report.txt, photo.jpg
\* and script.py, for the answers libmagic may give for them
ScenarioTrees ==
  {(Root :> "DIR") @@ (<<"report.txt">> :> "Q") @@ (<<"photo.jpg">> :> j)
     @@ (<<"script.py">> :> y) : <<j, y>> \in {"J", "B"} \X {"Y", "Z"}}

InitScenario ==
  /\ InitRegistry
  /\ cfFile = None
  /\ CATEGORIES = DefaultCategories
  /\ InitEngine
  /\ fs \in ScenarioTrees

SpecScenario == InitScenario /\ [][Next]_vars

\* the classifier and the category editor on their own
InitClassify ==
  /\ InitRegistry
  /\ cfFile \in ClassifyFiles
  /\ CATEGORIES = DefaultCategories
  /\ InitEngine
  /\ fs = TreeOf([n \in Level1Names |-> "-"], NoTree)

AddCategory ==
  \E w \in 1..MaxWindows, n \in NameEntries, k \in KeywordEntries,
     e \in ExtensionEntries, m \in MimeEntries : add_category(w, n, k, e, m)
RemoveCategory ==
  \E w \in 1..MaxWindows, sel \in 0..(Len(DefaultCategories) + MaxAdded) : remove_category(w, sel)

\* the category editor with several settings windows open, and the
\* classifier on files that have no MIME rule
RegistryFiles ==
  [name : {"R.TXT", "f.xyz"},
   sniff : {"application/octet-stream"},
   pdf : {EmptyText},
   raw : {ReadGives(TPhoto)},
   nlp : {"ok"}]

InitRegistryWindows ==
  /\ InitRegistry
  /\ cfFile \in RegistryFiles
  /\ CATEGORIES = DefaultCategories
  /\ InitEngine
  /\ fs = TreeOf([n \in Level1Names |-> "-"], NoTree)

OpenSettingsAgain == Len(listboxes) < MaxStaleWindows /\ open_settings
AddCategoryAny ==
  \E w \in 1..MaxStaleWindows, n \in NameEntries, k \in KeywordEntries,
     e \in ExtensionEntries, m \in MimeEntries : add_category(w, n, k, e, m)
RemoveCategoryAny ==
  \E w \in 1..MaxStaleWindows, sel \in 0..(Len(DefaultCategories) + MaxAdded) :
     remove_category(w, sel)

NextRegistry ==
  \/ OpenSettingsAgain
  \/ AddCategoryAny
  \/ RemoveCategoryAny
  \/ Classify

SpecRegistry == InitRegistryWindows /\ [][NextRegistry]_vars

NextClassify ==
  \/ OpenSettings
  \/ AddCategory
  \/ RemoveCategory
  \/ Classify

SpecClassify == InitClassify /\ [][NextClassify]_vars


\* ======================================================== claims, classifier
SeqSet(xs) == {xs[k] : k \in 1..Len(xs)}
Least(S) == CHOOSE k \in S : \A j \in S : k <= j

\* the term set of a file: the significant terms of its text (the PDF text
\* of a .pdf when there is one, else the decoded bytes), none when the file
\* cannot be read
FileTerms(f) ==
  LET viaPdf == Lower(SuffixNoDot(f.name)) = "pdf" /\ ~IsEmptyText(f.pdf)
      words == IF viaPdf THEN f.pdf.head
               ELSE IF f.raw.ok THEN f.raw.text.head ELSE <<>>
  IN {Lower(w) : w \in {x \in SeqSet(words) : IsNoun(Lower(x))}}

\* the layered reference function of the specification
RefCategory(mime, ext, terms, cats) ==
  LET byMime == {k \in 1..Len(cats) : mime \in SeqSet(cats[k].mime_types)}
      byExt == {k \in 1..Len(cats) : ext \in SeqSet(cats[k].extensions)}
      byTerm == {k \in 1..Len(cats) : SeqSet(cats[k].keywords) \cap terms # {}}
  IN IF byMime # {} THEN cats[Least(byMime)].name
     ELSE IF byExt # {} THEN cats[Least(byExt)].name
     ELSE IF mime \in {"application/pdf", "text/plain"} /\ byTerm # {}
          THEN cats[Least(byTerm)].name
     ELSE "Uncategorized"

\* C4: categorize never throws: whatever the sniffer, the extractor, the
\* text read or the term extractor do, a call of categorize_file returns a
\* category name.  (Violated: an exception of mime.from_file, or of
\* word_tokenize / pos_tag, leaves categorize_file.)
C4_NeverThrows == cfResult # Raised

\* C6: for every file for which the sniffer gives a MIME type and the term
\* extractor a term set, and every category table, categorize_file returns
\* what the layered reference function gives: first rule by MIME type, else
\* first rule by lowercase extension, else (allow-listed MIME types only)
\* first rule by keyword, else "Uncategorized".
C6_Layered ==
  (cfResult # None /\ cfFile.sniff # SniffError /\ cfFile.nlp = "ok") =>
     cfResult = RefCategory(cfFile.sniff, Lower(SuffixNoDot(cfFile.name)),
                            FileTerms(cfFile), CATEGORIES)

\* C6, witness: two rules list the extension of the file, the MIME type
\* matches none, and the rule registered first was returned
C6_Witness ==
  /\ cfResult = "Documents"
  /\ cfFile.sniff = "application/octet-stream"
  /\ Cardinality({k \in 1..Len(CATEGORIES) :
        InList(Lower(SuffixNoDot(cfFile.name)), CATEGORIES[k].extensions)}) = 2


\* ============================================================ claims, engine
LastOp == trace[Len(trace)]
MovedSet(r) == {r.moved[k] : k \in 1..Len(r.moved)}
MovedOrigs(r) == {m.orig : m \in MovedSet(r)}
LogPairs(r) == [k \in 1..Len(r.moved) |-> <<r.moved[k].target, r.moved[k].orig>>]
FilesOf(f) == {q \in DOMAIN f : f[q] # "DIR"}
\* an organize run has just ended normally / a restore has just ended
JustOrganized == trace # <<>> /\ LastOp = "organize" /\ pc = "idle" /\ LastRun.status = "done"
OrganizedThenRestored ==
  /\ Len(trace) >= 2
  /\ trace[Len(trace) - 1] = "organize"
  /\ LastOp = "restore"
  /\ pc = "idle"
  /\ LastRun.status = "done"
  /\ LastRun.saved = "ok"
  /\ rst.status = "done"

\* C1: round trip.  After an organize run whose log was saved and a restore
\* with that log (no environment failure anywhere), every file the run
\* moved is a file at its original path again, with its original bytes, and
\* nothing is left at its target path.  (Violated.)
C1_RoundTrip ==
  (OrganizedThenRestored /\ faults = 0) =>
     \A m \in MovedSet(LastRun) :
        /\ is_file(fs, m.orig)
        /\ fs[m.orig] = m.data
        /\ ~Exists(fs, m.target)

\* C2: log accuracy.  When an organize run has completed and its save
\* succeeded, the persisted log is exactly target -> original of the files
\* moved in the run, and for every entry the file is at the target path
\* and not at the original path.  (Violated.)
C2_LogAccurate ==
  (JustOrganized /\ LastRun.saved = "ok") =>
     /\ restore_log = [state |-> "ok", log |-> LogPairs(LastRun)]
     /\ \A m \in MovedSet(LastRun) :
           /\ is_file(fs, m.target)
           /\ fs[m.target] = m.data
           /\ ~is_file(fs, m.orig)

\* C3: a failure at a per-file step never aborts the run: when organize has
\* ended (no failure of the environment involved), every listed file was
\* attempted and the save of the log was reached.  (Violated.)
C3_NeverAborts ==
  (trace # <<>> /\ LastOp = "organize" /\ pc = "idle" /\ faults = 0) =>
     /\ LastRun.reached = Len(LastRun.listed)
     /\ LastRun.saved # "no"

\* the files listed by run r that have the bytes of p
Twins(r, p) == {q \in SeqSet(r.listed) : r.fs0[q] = r.fs0[p]}
Position(r, p) == CHOOSE k \in 1..Len(r.listed) : r.listed[k] = p

\* C5 as stated: after a completed run, in which no move failed, over a
\* directory in which exactly two files a, b have the same bytes: with
\* skip_duplicates one of them is moved and logged and the other is
\* reported as skipped, is still at its path and has no log entry; without
\* skip_duplicates both are moved and logged.
\* (Violated: when a hash cannot be computed both are moved.)
C5_AsStated ==
  (JustOrganized /\ LastRun.failed = {}) =>
    \A a \in SeqSet(LastRun.listed) : \A b \in Twins(LastRun, a) \ {a} :
      Twins(LastRun, a) = {a, b} =>
        IF LastRun.skip
        THEN \E x \in {a, b} : \E y \in {a, b} \ {x} :
               /\ x \in MovedOrigs(LastRun)
               /\ x \in DictValues(move_log)
               /\ y \in LastRun.skipped
               /\ is_file(fs, y)
               /\ y \notin DictValues(move_log)
        ELSE /\ {a, b} \subseteq MovedOrigs(LastRun)
             /\ {a, b} \subseteq DictValues(move_log)

\* C5 as amended: during and after an organize run with skip_duplicates,
\* of the files with the same bytes whose hash was computed at most one is
\* moved, and once one is moved every later one that is reached with its
\* hash computed is skipped; a skipped file has a twin moved earlier in the
\* run, is reported as skipped, is still at its original path with its
\* bytes and has no log entry.  Without skip_duplicates no file is skipped
\* and a completed run has moved and logged every file whose move did not
\* fail.
C5_DuplicateSkip ==
  (trace # <<>> /\ LastOp = "organize" /\ LastRun.status # "refused") =>
    LET r == LastRun
        movedHashed == MovedOrigs(r) \cap r.hashed
    IN /\ \A a \in movedHashed : \A b \in Twins(r, a) \ {a} :
            /\ b \notin movedHashed
            /\ (b \in r.hashed /\ Position(r, a) < Position(r, b)) => b \in r.skipped
       /\ \A y \in r.skipped :
            /\ r.skip
            /\ \E x \in movedHashed \cap Twins(r, y) : Position(r, x) < Position(r, y)
            /\ Line("skipping_duplicate", Basename(y)) \in SeqSet(log_area)
            /\ is_file(fs, y) /\ fs[y] = r.fs0[y]
            /\ y \notin DictValues(move_log)
       /\ ~r.skip => r.skipped = {}
       /\ (~r.skip /\ r.status = "done") =>
            SeqSet(r.listed) \ r.failed = MovedOrigs(r)
       /\ \A m \in MovedSet(r) : <<m.target, m.orig>> \in SeqSet(move_log)

\* C5, witness: a completed run with skip_duplicates moved one of two files
\* with the same bytes and skipped the other
C5_Witness ==
  /\ JustOrganized
  /\ LastRun.skip
  /\ \E a \in MovedOrigs(LastRun) : \E b \in LastRun.skipped :
        a # b /\ LastRun.fs0[a] = LastRun.fs0[b]

\* C7: a collision is a failure, not an overwrite: no run moved a file to a
\* target path at which a file already was, and no step of organize or
\* restore made a file disappear.  (Violated.)
C7_NoOverwrite ==
  /\ \A k \in 1..Len(runs) : \A m \in MovedSet(runs[k]) : ~is_file(runs[k].fs0, m.target)
  /\ runs # <<>> => Cardinality(FilesOf(fs)) = Cardinality(FilesOf(runs[1].fs0))

\* C8: cleanup-empty correctness.  After organize and then restore with
\* cleanup_empty (no environment failure), a subfolder that, when the
\* restore began, held only entries this restore moved back is gone, and a
\* subfolder that held something else still exists with that unchanged.
\* (Violated.)
C8_Cleanup ==
  (OrganizedThenRestored /\ rst.cleanup /\ faults = 0) =>
     LET back == {e[1] : e \in rst.restored}
     IN \A d \in {q \in iterdir(rst.fs0, Root) : is_dir(rst.fs0, q)} :
          LET held == iterdir(rst.fs0, d)
          IN /\ (held # {} /\ held \subseteq back) => ~Exists(fs, d)
             /\ \A q \in held \ DictKeys(rst.log0.log) :
                   Exists(fs, q) /\ fs[q] = rst.fs0[q]


\* two organize runs, both ended normally, with no restore in between
TwoRuns ==
  /\ Len(trace) >= 2
  /\ trace[1] = "organize"
  /\ trace[2] = "organize"
  /\ Len(runs) = 2
  /\ runs[1].status = "done"
  /\ runs[2].status = "done"

ExpectedError(lg) ==
  IF lg.state = "absent" THEN "NoLogFound"
  ELSE IF lg.state = "corrupt" THEN "ParseError"
  ELSE IF Len(lg.log) = 0 THEN "EmptyLog"
  ELSE None

\* C10: restore preconditions.  When restore is invoked and the persisted
\* log is missing, unparsable or empty, it ends at once with the single
\* error NoLogFound / ParseError / EmptyLog: nothing is moved, no folder is
\* removed, the file tree and the persisted log are as before.
C10_Preconditions ==
  (trace # <<>> /\ LastOp = "restore" /\ ExpectedError(rst.log0) # None) =>
     /\ pc = "idle"
     /\ rst.status = "refused"
     /\ rst.error = ExpectedError(rst.log0)
     /\ log_area = <<Line("checking", ""), Line("error", ExpectedError(rst.log0))>>
     /\ rst.restored = {} /\ rst.removed = {}
     /\ fs = rst.fs0
     /\ restore_log = rst.log0

\* C10, witness: restore was invoked on an unparsable log, with files
\* sitting in category folders
C10_Witness ==
  /\ trace # <<>> /\ LastOp = "restore"
  /\ rst.error = "ParseError"
  /\ \E q \in FilesOf(fs) : Len(q) = 2

\* C11: organize precondition.  When organize is invoked and the selected
\* path does not exist, or is not a directory, it ends with the error
\* "directory does not exist" and nothing else: the tree and the persisted
\* log are as before.  (Violated: for a path that is a file, iterdir raises
\* and the error is never reported.)
C11_Precondition ==
  (trace # <<>> /\ LastOp = "organize" /\ pc = "idle" /\ ~is_dir(LastRun.fs0, Root)) =>
     /\ LastRun.status = "refused"
     /\ log_area = <<Line("starting", ""), Line("error_no_directory", "")>>
     /\ fs = LastRun.fs0
     /\ restore_log = LastRun.log0

\* ========================================================== claims, registry
UniqueNames(cats) ==
  \A i \in 1..Len(cats) : \A j \in 1..Len(cats) : cats[i].name = cats[j].name => i = j

\* C12: registry edits, from any number of settings windows.  An add with a
\* name already in the table, or with no keyword, extension and MIME type,
\* is an error outcome that leaves the table as it was; a successful add
\* puts the new rule last, under a name that was not there; a remove of a
\* name that is not in the table is an error outcome that leaves the table
\* as it was, never an uncaught exception; names stay unique.  (Violated:
\* a remove from a stale list raises KeyError.)
C12_RegistryEdits ==
  [][ /\ (added' = added + 1) =>
           /\ Len(CATEGORIES') = Len(CATEGORIES) + 1
           /\ SubSeq(CATEGORIES', 1, Len(CATEGORIES)) = CATEGORIES
           /\ ~HasCategory(CATEGORIES, CATEGORIES'[Len(CATEGORIES')].name)
      /\ (edit' \in {"duplicate", "input_error", "KeyError"}) => CATEGORIES' = CATEGORIES
      /\ edit' # "KeyError"
      /\ UniqueNames(CATEGORIES') ]_vars

\* C17: after any sequence of adds and removes every extension of every
\* rule is in lowercase, and a file whose extension was typed for a rule
\* (and whose MIME type no rule lists) is given to a rule that lists it.
\* (Violated: add_category stores the entries as typed.)
C17_Normalized ==
  /\ \A k \in 1..Len(CATEGORIES) : \A e \in SeqSet(CATEGORIES[k].extensions) : Lower(e) = e
  /\ (/\ cfResult \notin {None, Raised}
      /\ cfFile.sniff = "application/octet-stream"
      /\ \E k \in 1..Len(CATEGORIES) :
            SuffixNoDot(cfFile.name) \in SeqSet(CATEGORIES[k].extensions))
     => \E k \in 1..Len(CATEGORIES) :
            /\ cfResult = CATEGORIES[k].name
            /\ SuffixNoDot(cfFile.name) \in SeqSet(CATEGORIES[k].extensions)

\* ============================================================ claims, logs
UniqueKeys(d) == \A i \in 1..Len(d) : \A j \in 1..Len(d) : d[i][1] = d[j][1] => i = j

\* C13: log uniqueness.  During and after any organize run no two entries
\* of the in-memory log, and none of the persisted log, have the same
\* target path, and no two files moved in one run were moved to the same
\* target path.
C13_LogUnique ==
  /\ UniqueKeys(move_log)
  /\ UniqueKeys(restore_log.log)
  /\ \A k \in 1..Len(runs) :
        \A i \in 1..Len(runs[k].moved) : \A j \in 1..Len(runs[k].moved) :
           (runs[k].moved[i].target = runs[k].moved[j].target) => i = j

\* C13, witness: a completed and saved run moved two files into the same
\* category folder
C13_Witness ==
  /\ JustOrganized
  /\ LastRun.saved = "ok"
  /\ Len(restore_log.log) = 2
  /\ \E m \in MovedSet(LastRun) : \E n \in MovedSet(LastRun) :
        m.orig # n.orig /\ Parent(m.target) = Parent(n.target)

\* C14: the default-registry scenario.  After an organize run (nothing
\* failing) over report.txt, photo.jpg and script.py under the default
\* table, the files are at Documents/report.txt, Images/photo.jpg and
\* Code/script.py and the persisted log has three entries.  (Violated: a
\* script.py reported as text/plain goes to Documents.)
C14_Scenario ==
  (JustOrganized /\ Len(runs) = 1 /\ faults = 0 /\ LastRun.fs0 \in ScenarioTrees) =>
     /\ is_file(fs, <<"Documents", "report.txt">>)
     /\ is_file(fs, <<"Images", "photo.jpg">>)
     /\ is_file(fs, <<"Code", "script.py">>)
     /\ restore_log.state = "ok"
     /\ Len(restore_log.log) = 3

\* ========================================================= claims, restore
\* a restore that got past its checks has ended
RestoreEnded ==
  /\ trace # <<>> /\ LastOp = "restore"
  /\ pc = "idle"
  /\ rst.status \notin {"none", "refused"}

\* C15: restore attempts every entry.  When a restore that got past its
\* checks has ended, every entry of the log was processed: restored, or
\* noted as not found, or recorded as an error; and the cleanup and the
\* completion message were reached.  (Violated: when the directory of the
\* entries is gone, the cleanup raises and the restore never completes.)
C15_EveryEntry ==
  RestoreEnded =>
     /\ rst.restored \cup rst.notfound \cup rst.failed = SeqSet(rst.log0.log)
     /\ \A e \in rst.notfound : Line("skipping_not_found", Basename(e[1])) \in SeqSet(log_area)
     /\ \A e \in rst.failed : Line("error_restoring", Basename(e[1])) \in SeqSet(log_area)
     /\ rst.status = "done"
     /\ log_area[Len(log_area)] = Line("restore_complete", "")

\* C16: restore never modifies the log.  From the invocation of restore
\* on, through every pass and whatever its outcome (refused, completed,
\* entries failing or not found, cleanup or not, cleanup raising), the
\* persisted log and the in-memory log are what they were when restore was
\* invoked.
C16_LogUntouched ==
  (trace # <<>> /\ LastOp = "restore") =>
     /\ restore_log = rst.log0
     /\ move_log = rst.mem0

\* C16, witness: a restore with cleanup has ended, one entry was moved
\* back and another failed, and the in-memory log still holds the entries
\* of the last organize run
C16_Witness ==
  /\ RestoreEnded
  /\ rst.status = "done"
  /\ rst.cleanup
  /\ rst.restored # {}
  /\ rst.failed # {}
  /\ move_log # <<>>
  /\ restore_log.log # <<>>

\* ====================================================== claims, classifier 2
\* C18: under the unmodified default table the content stage never decides.
\* For every file the sniffer gives a MIME type for, categorize_file
\* returns what the MIME and extension stages alone give (the reference
\* function with no terms at all), never raises in the term extractor, and
\* returns Documents whenever the MIME type is application/pdf or
\* text/plain.
C18_NoContentStage ==
  (cfResult # None /\ CATEGORIES = DefaultCategories /\ cfFile.sniff # SniffError) =>
     /\ cfResult # Raised
     /\ cfResult = RefCategory(cfFile.sniff, Lower(SuffixNoDot(cfFile.name)), {}, CATEGORIES)
     /\ cfFile.sniff \in {"application/pdf", "text/plain"} => cfResult = "Documents"

\* C18, witness: a plain text with no known extension whose only keyword
\* belongs to Images, and on which the term extractor would raise, was
\* classified Documents
C18_Witness ==
  /\ CATEGORIES = DefaultCategories
  /\ cfResult = "Documents"
  /\ cfFile.name = "f.xyz"
  /\ cfFile.sniff = "text/plain"
  /\ cfFile.raw = ReadGives(TPhoto)
  /\ cfFile.nlp = "raise"

\* ======================================================= claims, restore 2
\* organize, then a restore that moved every entry back, then a restore
\* that has ended
SecondRestore ==
  /\ Len(trace) >= 3
  /\ trace[Len(trace) - 2] = "organize"
  /\ trace[Len(trace) - 1] = "restore"
  /\ LastOp = "restore"
  /\ pc = "idle"
  /\ rst.prev.status = "done"
  /\ rst.prev.restored = SeqSet(rst.prev.log0.log)

\* what C19 says of the entries: none is moved, each is skipped as not found
NothingMovedAgain ==
  /\ rst.status = "done"
  /\ rst.restored = {}
  /\ rst.failed = {}
  /\ rst.notfound = SeqSet(rst.log0.log)
  /\ \A e \in rst.notfound : Line("skipping_not_found", Basename(e[1])) \in SeqSet(log_area)

\* C19 as stated: after organize and a restore in which every entry was
\* moved back, a second restore with the same log moves no file, skips
\* every entry as not found and leaves the file tree as it was.  (Violated:
\* a second restore with cleanup_empty removes the empty folders the first
\* one left.)
C19_AsStated == SecondRestore => (NothingMovedAgain /\ fs = rst.fs0)

\* C19 as amended: after organize and a restore in which every entry was
\* moved back, a second restore with the same log moves no file and skips
\* every entry as not found; the files of the tree and their bytes are the
\* same before and after; without cleanup_empty the whole tree is the
\* same, with it the only change is that empty immediate subfolders are
\* removed.
C19_SecondRestore ==
  SecondRestore =>
     /\ NothingMovedAgain
     /\ FilesOf(fs) = FilesOf(rst.fs0)
     /\ \A q \in FilesOf(fs) : fs[q] = rst.fs0[q]
     /\ ~rst.cleanup => fs = rst.fs0
     /\ (DOMAIN rst.fs0) \ (DOMAIN fs) = rst.removed
     /\ rst.removed \subseteq EmptySubdirs(rst.fs0, Root)
     /\ DOMAIN fs \subseteq DOMAIN rst.fs0

\* C19, witness: the second restore, with cleanup_empty, skipped an entry
\* and removed a folder the first restore had left empty
C19_Witness ==
  /\ SecondRestore
  /\ rst.notfound # {}
  /\ rst.cleanup
  /\ rst.removed # {}

\* C20: cleanup removes only what organize created.  After an organize
\* run whose log was saved and a restore with cleanup_empty (nothing
\* failing), the immediate subdirectories of the selected directory are
\* those it had before the organize run.  (Violated: a subfolder that was
\* already there, and empty, is removed as well.)
C20_OnlyCreated ==
  (OrganizedThenRestored /\ rst.cleanup /\ faults = 0) =>
     {q \in iterdir(fs, Root) : is_dir(fs, q)}
        = {q \in iterdir(LastRun.fs0, Root) : is_dir(LastRun.fs0, q)}

====
